---- MODULE Spec2Model ----
(***************************************************************************)
(* Model of the content acquisition and semantic retrieval pipeline of     *)
(* via_web_app.py: the crawler (scrape_website_content), the snapshot      *)
(* cache file, and the similarity ranking (find_similar_articles with      *)
(* get_article_embedding and cosine_similarity).                           *)
(*                                                                         *)
(* The specifications share the variables:                                 *)
(*   Spec        a session that loads or crawls the corpus (cold start),   *)
(*   RankSpec    a session that holds a corpus and answers rank calls,     *)
(*   LoadSpec    sessions that open with a snapshot on disk,               *)
(*   ConcSpec    the snapshot write beside a reading session,              *)
(*   AnswerSpec  the chat handler and the question and answer log,         *)
(*   LocSpec     get_articles_by_location,                                 *)
(*   RecSpec     recommend_articles,                                       *)
(*   SelectSpec  the selection on long candidate lists,                    *)
(*   LinkSpec    the anchor loop of the discovery phase,                   *)
(*   DetectSpec  the location detection of the extraction phase,           *)
(*   CrawlSpec   one run of the crawl under weak fairness.                 *)
(***************************************************************************)
EXTENDS Integers, Sequences, FiniteSets, TLC

VARIABLES
    pc,                   \* position of the session's single worker
    op,                   \* operation that produced `result`
    cacheFile,            \* CONTENT_CACHE_FILE on disk
    session_articles,     \* st.session_state.articles
    articles,             \* `articles` of the running function
    seen_urls,            \* scrape_website_content: seen_urls
    urls_to_visit,        \* scrape_website_content: urls_to_visit
    visited_count,        \* scrape_website_content: visited_count
    page_title,           \* <title> of the page being scanned in phase 1
    links_left,           \* anchors of the current page not yet scanned
    idx,                  \* loop index of phase 2 / of the rank loop
    query_embedding,      \* find_similar_articles: query_embedding
    top_k,                \* find_similar_articles: top_k
    article_scores,       \* find_similar_articles: article_scores
    embeddings_generated, \* find_similar_articles: embeddings_generated
    result,               \* value returned by the operation
    fetched,              \* history: URLs requested in phase 1, in order
    enqueued,             \* history: URLs ever appended to urls_to_visit
    rediscovered,         \* history: a link to an already seen URL was met
    write_failed,         \* history: the snapshot write of this call raised
    query_failed,         \* history: the query embedding call raised
    entry_articles,       \* history: the corpus on entry of the rank call
    entry_cache,          \* history: the snapshot file on entry of the call
    embed_calls,          \* history: documents sent to embed in this call
    cache_read,           \* history: what the cache read of this call gave
    requests,             \* history: HTTP requests of this call, both phases
    fetch_ok,             \* history: a phase 1 request of this call succeeded
    scrape_error,         \* history: the crawl ended in its except branch
    writer,               \* a session writing the snapshot file
    reader,               \* another session reading the snapshot file
    chat,                 \* main: the chat handler of the session
    qa_logs,              \* st.session_state.qa_logs
    sheet_log,            \* rows of the Google Sheets worksheet
    csv_log,              \* rows of QA_LOG_FILE
    rec_in,               \* arguments of a recommend_articles call
    rec_out,              \* value recommend_articles returned
    sel_in,               \* candidates and reply of a short-list selection
    sel_out,              \* documents the short-list selection returned
    loc_in,               \* arguments of a get_articles_by_location call
    loc_out,              \* value get_articles_by_location returned
    scanned,              \* the anchor the discovery loop handled last
    det_in,               \* a fetched page given to location detection
    det_out               \* the states location detection stored

vars == <<pc, op, cacheFile, session_articles, articles, seen_urls,
          urls_to_visit, visited_count, page_title, links_left, idx,
          query_embedding, top_k, article_scores, embeddings_generated,
          result, fetched, enqueued, rediscovered, write_failed,
          query_failed, entry_articles, entry_cache, embed_calls,
          cache_read, requests, fetch_ok, scrape_error,
          writer, reader, chat, qa_logs, sheet_log, csv_log,
          rec_in, rec_out, sel_in, sel_out, loc_in, loc_out,
          scanned, det_in, det_out>>

\* the variables of the other specifications
fileVars == <<writer, reader>>
chatVars == <<chat, qa_logs, sheet_log, csv_log>>
pageVars == <<scanned, det_in, det_out>>
recVars == <<rec_in, rec_out, sel_in, sel_out, loc_in, loc_out, pageVars>>

obsVars == <<cache_read, requests, fetch_ok, scrape_error>>

crawlVars == <<seen_urls, urls_to_visit, visited_count, page_title,
               links_left, fetched, enqueued, rediscovered>>

rankVars == <<query_embedding, top_k, article_scores, embeddings_generated,
              query_failed, entry_articles, entry_cache, embed_calls>>

\* the session's corpus and every local of the crawl and rank calls
callVars == <<pc, op, session_articles, articles, crawlVars, idx, result,
              write_failed, rankVars, obsVars>>

(***************************************************************************)
(* Bounds of the model.                                                    *)
(***************************************************************************)
\* page budget of phase 1 (200 in the source), scaled below the seed count
max_pages == 3
\* most anchors on one fetched page
MaxLinks == 2
\* most documents in the corpus of a rank session
MaxDocs == 3

(***************************************************************************)
(* URLs, links and pages.                                                  *)
(***************************************************************************)
U_ROOT == "https://ridewithvia.com/"
U_BLOG == "https://ridewithvia.com/blog/"
U_ABOUT == "https://ridewithvia.com/about/"
U_POST == "https://ridewithvia.com/blog/my-post"
U_SOLUTIONS == "https://ridewithvia.com/solutions/"
U_PRICING == "https://ridewithvia.com/pricing/"

U_CASE == "https://ridewithvia.com/case-studies/metro"
U_RES == "https://ridewithvia.com/resources/guide"

\* pages that anchors of the site may point to besides URLS
U_RES_CASE == "https://ridewithvia.com/resources/case-studies/metro"
U_ABOUT_Q == "https://ridewithvia.com/about/?from=/blog/"
U_FOREIGN == "https://via.example.net/blog/?ref=ridewithvia.com"
U_EXTERNAL == "https://example.org/blog/news"

\* the pages of the crawled site
URLS == {U_ROOT, U_BLOG, U_ABOUT, U_SOLUTIONS, U_POST, U_CASE, U_PRICING}

\* the URLs of the documents of a rank session, in corpus order
CorpusURLs == <<U_BLOG, U_POST, U_ABOUT, U_CASE, U_RES>>

\* the seed list, after urljoin(WEBSITE_URL, seed); four of the ten seeds
seed_urls == <<U_ROOT, U_BLOG, U_SOLUTIONS, U_ABOUT>>

\* 'ridewithvia.com' in url
MentionsOrigin(u) ==
    u \in URLS \cup {CorpusURLs[i] : i \in 1..Len(CorpusURLs)}
            \cup {U_RES_CASE, U_ABOUT_Q, U_FOREIGN}

\* the path markers of the allow-list and of the type chain found in url
PathMarkers(u) ==
    CASE u = U_BLOG -> {"/blog/"}
      [] u = U_POST -> {"/blog/"}
      [] u = U_ABOUT -> {"/about/"}
      [] u = U_SOLUTIONS -> {"/solutions/"}
      [] u = U_CASE -> {"/case-studies/"}
      [] u = U_RES -> {"/resources/"}
      [] u = U_RES_CASE -> {"/resources/", "/case-studies/"}
      [] u = U_ABOUT_Q -> {"/about/", "/blog/"}
      [] u = U_FOREIGN -> {"/blog/"}
      [] u = U_EXTERNAL -> {"/blog/"}
      [] OTHER -> {}

AllowList == {"/blog/", "/resources/", "/solutions/", "/audience/",
              "/case-studies/", "/about/"}

\* any(path in full_url for path in [...])
AllowListed(u) == PathMarkers(u) \cap AllowList # {}

\* full_url.split('/')[-1]
LastSegment(u) ==
    CASE u = U_POST -> "my-post"
      [] u = U_CASE -> "metro"
      [] u = U_RES -> "guide"
      [] u = U_RES_CASE -> "metro"
      [] u = U_FOREIGN -> "?ref=ridewithvia.com"
      [] u = U_EXTERNAL -> "news"
      [] OTHER -> ""

\* titles of 299, 300 and 301 characters
T299 == "<a title of 299 characters>"
T300 == "<a title of 300 characters>"
T301 == "<a title of 301 characters>"

\* len(title)
TitleLen(t) ==
    CASE t = "" -> 0
      [] t = "Home" -> 4
      [] t = "news" -> 4
      [] t = "Intro" -> 5
      [] t = "metro" -> 5
      [] t = "guide" -> 5
      [] t = "?ref=ridewithvia.com" -> 20
      [] t = T299 -> 299
      [] t = T300 -> 300
      [] t = T301 -> 301
      [] t = "my-post" -> 7
      [] t = "Via blog" -> 8
      [] t = "Via home" -> 8
      [] OTHER -> 0

NoElem == "<none>"
LinkTexts == {"", "Via blog"}
PageTitles == {NoElem, "", "Via home"}
Contents == {"", "c"}

\* an anchor: href is relative ('/...'), absolute ('http...') or neither
Hrefs == [form : {"rel"}, target : URLS]
         \cup [form : {"abs"}, target : {U_POST}]
         \cup [form : {"other"}, target : {U_ROOT}]
Links == [href : Hrefs, text : LinkTexts]

\* the anchors a page of any content may hold
AnchorTexts == LinkTexts \cup {"Home", "Intro", T299, T300, T301}
AnchorHrefs ==
    [form : {"rel"}, target : URLS \cup {U_RES, U_RES_CASE, U_ABOUT_Q}]
    \cup [form : {"abs"}, target : {U_POST, U_FOREIGN, U_EXTERNAL}]
    \cup [form : {"other"}, target : {U_ROOT}]
Anchors == [href : AnchorHrefs, text : AnchorTexts]

NoVec == <<>>

\* a stub Document of phase 1
Stub(u, t, ty) ==
    [url |-> u, title |-> t, content |-> "", description |-> "",
     type |-> ty, embedding |-> NoVec]

NoFile == [exists |-> FALSE, valid |-> FALSE, data |-> <<>>]
Snapshot(as) == [exists |-> TRUE, valid |-> TRUE, data |-> as]
\* a file that open(..., 'w') truncated and json.dump did not complete
PartialFile == [exists |-> TRUE, valid |-> FALSE, data |-> <<>>]

Min(a, b) == IF a < b THEN a ELSE b

(***************************************************************************)
(* scrape_website_content                                                  *)
(***************************************************************************)
\* the type chain on the URL path
article_type(u) ==
    IF "/blog/" \in PathMarkers(u) THEN "blog"
    ELSE IF "/resources/" \in PathMarkers(u) THEN "resource"
    ELSE IF "/case-studies/" \in PathMarkers(u) THEN "case-study"
    ELSE IF "/solutions/" \in PathMarkers(u) THEN "solution"
    ELSE IF "/audience/" \in PathMarkers(u) THEN "audience"
    ELSE "page"

\* the title of a discovered link after the fallback chain
LinkTitle(link, ptitle, u) ==
    IF link.text = "" \/ TitleLen(link.text) < 5
    THEN IF ptitle # NoElem THEN ptitle ELSE LastSegment(u)
    ELSE link.text

\* title and len(title) > 5 and len(title) < 300
TitleAccepted(t) == t # "" /\ TitleLen(t) > 5 /\ TitleLen(t) < 300

\* variant: the seen_urls test is left out
LinkIsNew_IgnoreSeen(u, seen) == MentionsOrigin(u)

\* the link is new: 'ridewithvia.com' in full_url and full_url not in seen_urls
LinkIsNew(u, seen) == MentionsOrigin(u) /\ u \notin seen

\* variant: the loop runs until the frontier is empty
DiscoverGuard_NoBudget == urls_to_visit # <<>>

\* while urls_to_visit and visited_count < max_pages
DiscoverGuard == urls_to_visit # <<>> /\ visited_count < max_pages

NothingRead == [error |-> FALSE, data |-> <<>>]

\* variant: the file is opened without the os.path.exists test
CacheRead_NoExistsTest(file) ==
    IF ~file.exists \/ ~file.valid THEN [error |-> TRUE, data |-> <<>>]
    ELSE [error |-> FALSE, data |-> file.data]

\* variant: the cache is never used
CacheRead_Ignored(file) == NothingRead

\* the cache read: os.path.exists, json.load, and the except branch that
\* warns "Error loading cache" when the file does not parse
CacheRead(file) ==
    IF ~file.exists THEN NothingRead
    ELSE IF ~file.valid THEN [error |-> TRUE, data |-> <<>>]
    ELSE [error |-> FALSE, data |-> file.data]

\* main: the corpus is loaded when the session holds none
ScrapeStart ==
    /\ pc = "idle"
    /\ session_articles = <<>>
    /\ op' = "scrape"
    /\ write_failed' = FALSE
    /\ cache_read' = CacheRead(cacheFile)
    /\ entry_cache' = cacheFile
    /\ requests' = 0
    /\ fetch_ok' = FALSE
    /\ scrape_error' = FALSE
    /\ IF cache_read'.data # <<>>
       THEN \* if cached: return cached
            /\ pc' = "done"
            /\ result' = cache_read'.data
            /\ UNCHANGED <<articles, crawlVars, idx>>
       ELSE /\ pc' = "discover"
            /\ articles' = <<>>
            /\ seen_urls' = {}
            /\ urls_to_visit' = seed_urls
            /\ enqueued' = {seed_urls[i] : i \in 1..Len(seed_urls)}
            /\ visited_count' = 0
            /\ fetched' = <<>>
            /\ rediscovered' = FALSE
            /\ page_title' = NoElem
            /\ links_left' = 0
            /\ idx' = 0
            /\ result' = <<>>
    /\ UNCHANGED <<cacheFile, session_articles, query_embedding, top_k,
                   article_scores, embeddings_generated, query_failed,
                   entry_articles, embed_calls, fileVars, chatVars, recVars>>

\* variant: a URL that was seen before stays at the head of the frontier
DiscoverPop_NoPop ==
    /\ pc = "discover"
    /\ links_left = 0
    /\ DiscoverGuard
    /\ LET current_url == Head(urls_to_visit) IN
       /\ urls_to_visit' = IF current_url \in seen_urls THEN urls_to_visit
                          ELSE Tail(urls_to_visit)
       /\ IF current_url \in seen_urls
          THEN UNCHANGED <<seen_urls, visited_count, fetched, page_title,
                           links_left, requests, fetch_ok>>
          ELSE /\ seen_urls' = seen_urls \cup {current_url}
               /\ visited_count' = visited_count + 1
               /\ fetched' = Append(fetched, current_url)
               /\ requests' = requests + 1
               /\ \/ \* the request fails or the page is not HTML
                     /\ page_title' = NoElem
                     /\ links_left' = 0
                     /\ UNCHANGED fetch_ok
                  \/ \E t \in PageTitles, n \in 0..MaxLinks :
                        /\ page_title' = t
                        /\ links_left' = n
                        /\ fetch_ok' = TRUE
    /\ UNCHANGED <<pc, op, cacheFile, session_articles, articles, idx,
                   result, enqueued, rediscovered, write_failed,
                   query_embedding, top_k, article_scores,
                   embeddings_generated, query_failed, entry_articles,
                   entry_cache, embed_calls, cache_read, scrape_error,
                   fileVars, chatVars, recVars>>

\* one iteration of the phase 1 loop up to the scan of the page's anchors
DiscoverPop ==
    /\ pc = "discover"
    /\ links_left = 0
    /\ DiscoverGuard
    /\ LET current_url == Head(urls_to_visit) IN
       /\ urls_to_visit' = Tail(urls_to_visit)
       /\ IF current_url \in seen_urls
          THEN UNCHANGED <<seen_urls, visited_count, fetched, page_title,
                           links_left, requests, fetch_ok>>
          ELSE /\ seen_urls' = seen_urls \cup {current_url}
               /\ visited_count' = visited_count + 1
               /\ fetched' = Append(fetched, current_url)
               /\ requests' = requests + 1
               /\ \/ \* the request fails or the page is not HTML
                     /\ page_title' = NoElem
                     /\ links_left' = 0
                     /\ UNCHANGED fetch_ok
                  \/ \E t \in PageTitles, n \in 0..MaxLinks :
                        /\ page_title' = t
                        /\ links_left' = n
                        /\ fetch_ok' = TRUE
    /\ UNCHANGED <<pc, op, cacheFile, session_articles, articles, idx,
                   result, enqueued, rediscovered, write_failed,
                   query_embedding, top_k, article_scores,
                   embeddings_generated, query_failed, entry_articles,
                   entry_cache, embed_calls, cache_read, scrape_error,
                   fileVars, chatVars, recVars>>

\* the body of the loop over the anchors of a page
ScanAnchor(link) ==
    LET full_url == link.href.target IN
    IF \/ link.href.form = "other"
       \/ link.href.form = "abs" /\ ~MentionsOrigin(full_url)
    THEN UNCHANGED <<seen_urls, urls_to_visit, enqueued, articles,
                     rediscovered>>
    ELSE IF ~LinkIsNew(full_url, seen_urls)
    THEN /\ rediscovered' = TRUE
         /\ UNCHANGED <<seen_urls, urls_to_visit, enqueued, articles>>
    ELSE IF ~AllowListed(full_url)
    THEN UNCHANGED <<seen_urls, urls_to_visit, enqueued, articles,
                     rediscovered>>
    ELSE /\ urls_to_visit' = Append(urls_to_visit, full_url)
         /\ seen_urls' = seen_urls \cup {full_url}
         /\ enqueued' = enqueued \cup {full_url}
         /\ LET title == LinkTitle(link, page_title, full_url) IN
            articles' = IF TitleAccepted(title)
                        THEN Append(articles,
                               Stub(full_url, title, article_type(full_url)))
                        ELSE articles
         /\ UNCHANGED rediscovered

\* one anchor of the page being scanned
DiscoverLink ==
    /\ pc = "discover"
    /\ links_left > 0
    /\ links_left' = links_left - 1
    /\ \E link \in Links : ScanAnchor(link)
    /\ UNCHANGED <<pc, op, cacheFile, session_articles, visited_count,
                   page_title, idx, result, fetched, write_failed, rankVars,
                   obsVars, fileVars, chatVars, recVars>>

\* the phase 1 loop ends
DiscoverDone ==
    /\ pc = "discover"
    /\ links_left = 0
    /\ ~DiscoverGuard
    /\ pc' = "extract"
    /\ idx' = 1
    /\ UNCHANGED <<op, cacheFile, session_articles, articles, crawlVars,
                   result, write_failed, rankVars, obsVars, fileVars,
                   chatVars, recVars>>

\* variant: phase 2 types the document again, from the page it fetched
Extracted_Retyped(a, ptitle, content, description) ==
    [a EXCEPT
       !.title = IF (a.title = "" \/ a.title = LastSegment(a.url))
                    /\ ptitle # NoElem
                 THEN ptitle ELSE a.title,
       !.content = content,
       !.description = description,
       !.type = IF content = "" THEN a.type ELSE "page"]

\* phase 2 on one stub: the fields a fetched page fills
Extracted(a, ptitle, content, description) ==
    [a EXCEPT
       !.title = IF (a.title = "" \/ a.title = LastSegment(a.url))
                    /\ ptitle # NoElem
                 THEN ptitle ELSE a.title,
       !.content = content,
       !.description = description]

\* one iteration of the phase 2 loop
ExtractArticle ==
    /\ pc = "extract"
    /\ idx <= Len(articles)
    /\ idx' = idx + 1
    /\ requests' = requests + 1
    /\ \/ \* the request fails or the page is not HTML: continue
          UNCHANGED articles
       \/ \E t \in PageTitles, c \in Contents :
             articles' = [articles EXCEPT
                            ![idx] = Extracted(articles[idx], t, c, "")]
    /\ UNCHANGED <<pc, op, cacheFile, session_articles, crawlVars, result,
                   write_failed, rankVars, cache_read, fetch_ok,
                   scrape_error, fileVars, chatVars, recVars>>

\* the value scrape_website_content returns after the snapshot write
ScrapeResult(as, written) == IF written THEN as ELSE <<>>

\* the snapshot write and the return
SaveCache ==
    /\ pc = "extract"
    /\ idx > Len(articles)
    /\ pc' = "done"
    /\ \/ /\ cacheFile' = Snapshot(articles)
          /\ write_failed' = FALSE
          /\ scrape_error' = FALSE
          /\ result' = ScrapeResult(articles, TRUE)
       \/ \* the write raises into the outer except branch
          /\ cacheFile' \in {cacheFile, PartialFile}
          /\ write_failed' = TRUE
          /\ scrape_error' = TRUE
          /\ result' = ScrapeResult(articles, FALSE)
    /\ UNCHANGED <<op, session_articles, articles, crawlVars, idx, rankVars,
                   cache_read, requests, fetch_ok, fileVars, chatVars,
                   recVars>>

\* the locals of a function that returned
LocalsCleared ==
    /\ op' = "none"
    /\ articles' = <<>>
    /\ seen_urls' = {}
    /\ urls_to_visit' = <<>>
    /\ visited_count' = 0
    /\ page_title' = NoElem
    /\ links_left' = 0
    /\ idx' = 0
    /\ query_embedding' = NoVec
    /\ top_k' = 0
    /\ article_scores' = <<>>
    /\ embeddings_generated' = 0
    /\ result' = <<>>
    /\ fetched' = <<>>
    /\ enqueued' = {}
    /\ rediscovered' = FALSE
    /\ write_failed' = FALSE
    /\ query_failed' = FALSE
    /\ entry_articles' = <<>>
    /\ entry_cache' = NoFile
    /\ embed_calls' = {}
    /\ cache_read' = NothingRead
    /\ requests' = 0
    /\ fetch_ok' = FALSE
    /\ scrape_error' = FALSE

\* main keeps what the operation returned and waits for the next event
Rerun ==
    /\ pc = "done"
    /\ pc' = "idle"
    /\ session_articles' = IF op = "scrape" THEN result ELSE session_articles
    /\ LocalsCleared
    /\ UNCHANGED <<cacheFile, fileVars, chatVars, recVars>>

\* a new session starts: its session state holds no articles yet
NewSession ==
    /\ pc = "idle"
    /\ session_articles # <<>>
    /\ session_articles' = <<>>
    /\ UNCHANGED <<pc, op, cacheFile, articles, crawlVars, idx, result,
                   write_failed, rankVars, obsVars, fileVars, chatVars,
                   recVars>>

\* the "Refresh Cache" button
RefreshCache ==
    /\ pc = "idle"
    /\ cacheFile.exists \/ session_articles # <<>>
    /\ cacheFile' = NoFile
    /\ session_articles' = <<>>
    /\ UNCHANGED <<pc, op, articles, crawlVars, idx, result, write_failed,
                   rankVars, obsVars, fileVars, chatVars, recVars>>

(***************************************************************************)
(* find_similar_articles, get_article_embedding, cosine_similarity         *)
(***************************************************************************)
\* the vectors the embedding capability returns: all of length 5, as the
\* capability returns vectors of one fixed length
EmbVecs == {<<5, 0>>, <<3, 4>>, <<-5, 0>>}

RECURSIVE DotFrom(_, _, _)
DotFrom(a, b, i) ==
    IF i > Len(a) THEN 0 ELSE a[i] * b[i] + DotFrom(a, b, i + 1)

\* np.dot(a, b)
Dot(a, b) == DotFrom(a, b, 1)

\* np.linalg.norm(a)
Norm(a) == CHOOSE r \in 0..Dot(a, a) : r * r = Dot(a, a)

\* np.dot(a, b) / (norm(a) * norm(b)), in hundredths
cosine_similarity(a, b) == (100 * Dot(a, b)) \div (Norm(a) * Norm(b))

\* the score of a document whose embedding is not available
FailScore == 0

\* variant: the stored embedding is never reused
EmbeddingCached_Never(a) == FALSE

\* get_article_embedding: 'embedding' in article and article['embedding']
EmbeddingCached(a) == a.embedding # NoVec

\* get_article_embedding: text.strip() of title, description, content[:500]
HasText(a) == a.title # "" \/ a.description # "" \/ a.content # ""

\* find_similar_articles: the test that counts a newly generated embedding,
\* made on the article after get_article_embedding stored into it
CountsAsGenerated(a) == a.embedding = NoVec

\* variant: the fallback returns the whole corpus
FirstK_All(as, k) == as

\* articles[:top_k]
FirstK(as, k) == SubSeq(as, 1, Min(k, Len(as)))

\* list.sort(key=score, reverse=True): stable, highest score first
InsertByScore(acc, e) ==
    LET n == Cardinality({j \in 1..Len(acc) : acc[j].score >= e.score})
    IN SubSeq(acc, 1, n) \o <<e>> \o SubSeq(acc, n + 1, Len(acc))

RECURSIVE SortFrom(_, _, _)
SortFrom(s, i, acc) ==
    IF i > Len(s) THEN acc ELSE SortFrom(s, i + 1, InsertByScore(acc, s[i]))

\* variant: the scores are left in corpus order
SortByScore_Unsorted(s) == s

SortByScore(s) == SortFrom(s, 1, <<>>)

\* the query embedding call and, when it raises, the fallback return
RankStart ==
    /\ pc = "idle"
    /\ op' = "rank"
    /\ articles' = session_articles
    /\ entry_articles' = session_articles
    /\ entry_cache' = cacheFile
    /\ embed_calls' = {}
    /\ write_failed' = FALSE
    /\ article_scores' = <<>>
    /\ embeddings_generated' = 0
    /\ \E k \in 0..MaxDocs :
          /\ top_k' = k
          /\ \/ /\ query_failed' = TRUE
                /\ query_embedding' = NoVec
                /\ result' = FirstK(session_articles, k)
                /\ idx' = 0
                /\ pc' = "done"
             \/ \E q \in EmbVecs :
                   /\ query_failed' = FALSE
                   /\ query_embedding' = q
                   /\ result' = <<>>
                   /\ idx' = 1
                   /\ pc' = "rank"
    /\ UNCHANGED <<cacheFile, session_articles, crawlVars, obsVars,
                   fileVars, chatVars, recVars>>

\* one iteration of the loop over the articles
RankArticle ==
    /\ pc = "rank"
    /\ idx <= Len(articles)
    /\ idx' = idx + 1
    /\ LET a == articles[idx] IN
       \E v \in EmbVecs \cup {NoVec} :
          \* v is what get_article_embedding returns (NoVec for None)
          /\ IF EmbeddingCached(a)
             THEN v = a.embedding /\ UNCHANGED <<articles, embed_calls>>
             ELSE IF ~HasText(a)
             THEN v = NoVec /\ UNCHANGED <<articles, embed_calls>>
             ELSE /\ embed_calls' = embed_calls \cup {idx}
                  /\ articles' = IF v = NoVec THEN articles
                                 ELSE [articles EXCEPT ![idx].embedding = v]
          /\ IF v # NoVec
             THEN /\ article_scores' =
                       Append(article_scores,
                              [score |-> cosine_similarity(query_embedding, v),
                               article |-> articles'[idx]])
                  /\ embeddings_generated' =
                       IF CountsAsGenerated(articles'[idx])
                       THEN embeddings_generated + 1
                       ELSE embeddings_generated
             ELSE /\ article_scores' =
                       Append(article_scores,
                              [score |-> FailScore, article |-> a])
                  /\ UNCHANGED embeddings_generated
    \* the list is the session's list: the update is seen through both names
    /\ session_articles' = articles'
    /\ UNCHANGED <<pc, op, cacheFile, crawlVars, query_embedding, top_k,
                   result, write_failed, query_failed, entry_articles,
                   entry_cache, obsVars, fileVars, chatVars, recVars>>

\* the write-back of the snapshot, the sort and the return
RankFinish ==
    /\ pc = "rank"
    /\ idx > Len(articles)
    /\ pc' = "done"
    /\ IF embeddings_generated > 0
       THEN \E ok \in BOOLEAN :
               /\ write_failed' = ~ok
               /\ cacheFile' \in IF ok THEN {Snapshot(articles)}
                                 ELSE {cacheFile, PartialFile}
       ELSE UNCHANGED <<cacheFile, write_failed>>
    /\ article_scores' = SortByScore(article_scores)
    /\ result' = [i \in 1..Min(top_k, Len(article_scores)) |->
                    FirstK(article_scores', top_k)[i].article]
    /\ UNCHANGED <<op, session_articles, articles, crawlVars, idx,
                   query_embedding, top_k, embeddings_generated,
                   query_failed, entry_articles, entry_cache, embed_calls,
                   obsVars, fileVars, chatVars, recVars>>

\* the documents a rank session can hold
TextChoices == {[title |-> "", content |-> ""],
                [title |-> "Via blog", content |-> "c"]}

CorpusDoc(i, t, e) ==
    [url |-> CorpusURLs[i], title |-> t.title, content |-> t.content,
     description |-> "", type |-> article_type(CorpusURLs[i]),
     embedding |-> e]

\* a document without text never got an embedding
DocChoices(i) ==
    {CorpusDoc(i, t, e) : t \in TextChoices, e \in {NoVec}}
    \cup {CorpusDoc(i, t, e) : t \in {x \in TextChoices : x.title # ""},
                               e \in EmbVecs}

RankCorpora ==
    UNION {{c \in [1..n -> UNION {DocChoices(i) : i \in 1..n}] :
              \A i \in 1..n : c[i] \in DocChoices(i)} : n \in 0..MaxDocs}

\* the snapshot of a corpus as the crawl wrote it: no document has a vector
Stripped(as) == [i \in 1..Len(as) |-> [as[i] EXCEPT !.embedding = NoVec]]

\* the variables of the specifications that are not running
NoWriter == [pc |-> "off", data |-> <<>>, previous |-> NoFile]
NoReader == [pc |-> "off", seen |-> NoFile]
NoChat == [pc |-> "off", n |-> 0, sheets |-> FALSE]
NoCall == [called |-> FALSE]

FileIdle ==
    /\ writer = NoWriter
    /\ reader = NoReader

ChatIdle ==
    /\ chat = NoChat
    /\ qa_logs = <<>>
    /\ sheet_log = <<>>
    /\ csv_log = <<>>

PageIdle ==
    /\ scanned = NoCall
    /\ det_in = NoCall
    /\ det_out = NoCall

RecIdle ==
    /\ PageIdle
    /\ rec_in = NoCall
    /\ rec_out = NoCall
    /\ sel_in = NoCall
    /\ sel_out = NoCall
    /\ loc_in = NoCall
    /\ loc_out = NoCall

OthersIdle == FileIdle /\ ChatIdle /\ RecIdle

Init ==
    /\ pc = "idle"
    /\ op = "none"
    /\ cacheFile = NoFile
    /\ session_articles = <<>>
    /\ articles = <<>>
    /\ seen_urls = {}
    /\ urls_to_visit = <<>>
    /\ visited_count = 0
    /\ page_title = NoElem
    /\ links_left = 0
    /\ idx = 0
    /\ query_embedding = NoVec
    /\ top_k = 0
    /\ article_scores = <<>>
    /\ embeddings_generated = 0
    /\ result = <<>>
    /\ fetched = <<>>
    /\ enqueued = {}
    /\ rediscovered = FALSE
    /\ write_failed = FALSE
    /\ query_failed = FALSE
    /\ entry_articles = <<>>
    /\ entry_cache = NoFile
    /\ embed_calls = {}
    /\ cache_read = NothingRead
    /\ requests = 0
    /\ fetch_ok = FALSE
    /\ scrape_error = FALSE
    /\ OthersIdle

Next ==
    \/ ScrapeStart
    \/ DiscoverPop
    \/ DiscoverLink
    \/ DiscoverDone
    \/ ExtractArticle
    \/ SaveCache
    \/ Rerun
    \/ NewSession
    \/ RefreshCache

Spec == Init /\ [][Next]_vars

\* a session that loaded its corpus and ranked before
RankInit ==
    /\ pc = "idle"
    /\ op = "none"
    /\ session_articles \in RankCorpora
    /\ cacheFile = Snapshot(Stripped(session_articles))
    /\ articles = <<>>
    /\ seen_urls = {}
    /\ urls_to_visit = <<>>
    /\ visited_count = 0
    /\ page_title = NoElem
    /\ links_left = 0
    /\ idx = 0
    /\ query_embedding = NoVec
    /\ top_k = 0
    /\ article_scores = <<>>
    /\ embeddings_generated = 0
    /\ result = <<>>
    /\ fetched = <<>>
    /\ enqueued = {}
    /\ rediscovered = FALSE
    /\ write_failed = FALSE
    /\ query_failed = FALSE
    /\ entry_articles = <<>>
    /\ entry_cache = NoFile
    /\ embed_calls = {}
    /\ cache_read = NothingRead
    /\ requests = 0
    /\ fetch_ok = FALSE
    /\ scrape_error = FALSE
    /\ OthersIdle

RankNext ==
    \/ RankStart
    \/ RankArticle
    \/ RankFinish
    \/ Rerun

RankSpec == RankInit /\ [][RankNext]_vars

\* no call is running: the locals and the history of a call are clear
LocalsIdle ==
    /\ articles = <<>>
    /\ seen_urls = {}
    /\ urls_to_visit = <<>>
    /\ visited_count = 0
    /\ page_title = NoElem
    /\ links_left = 0
    /\ idx = 0
    /\ query_embedding = NoVec
    /\ top_k = 0
    /\ article_scores = <<>>
    /\ embeddings_generated = 0
    /\ result = <<>>
    /\ fetched = <<>>
    /\ enqueued = {}
    /\ rediscovered = FALSE
    /\ write_failed = FALSE
    /\ query_failed = FALSE
    /\ entry_articles = <<>>
    /\ entry_cache = NoFile
    /\ embed_calls = {}
    /\ cache_read = NothingRead
    /\ requests = 0
    /\ fetch_ok = FALSE
    /\ scrape_error = FALSE

\* sessions that open with a usable snapshot on disk, with or without
\* embeddings in its documents
LoadInit ==
    /\ pc = "idle"
    /\ op = "none"
    /\ cacheFile \in {Snapshot(c) : c \in RankCorpora \ {<<>>}}
    /\ session_articles = <<>>
    /\ LocalsIdle
    /\ OthersIdle

LoadNext ==
    \/ ScrapeStart
    \/ Rerun
    \/ NewSession

LoadSpec == LoadInit /\ [][LoadNext]_vars

(***************************************************************************)
(* The snapshot write at the grain of its two calls, open(..., 'w') and    *)
(* json.dump, with another session reading the file at any point           *)
(***************************************************************************)
\* with open(CONTENT_CACHE_FILE, 'w') as f: the file is truncated in place
WriteOpen ==
    /\ writer.pc = "ready"
    /\ \/ /\ cacheFile' = PartialFile
          /\ writer' = [writer EXCEPT !.pc = "opened"]
       \/ \* open raises: the file is as it was
          /\ writer' = [writer EXCEPT !.pc = "failed"]
          /\ UNCHANGED cacheFile
    /\ UNCHANGED <<reader, callVars, chatVars, recVars>>

\* json.dump(articles, f, indent=2) and the close of the with block
WriteDump ==
    /\ writer.pc = "opened"
    /\ \/ /\ cacheFile' = Snapshot(writer.data)
          /\ writer' = [writer EXCEPT !.pc = "written"]
       \/ \* the dump raises part of the way: the file stays incomplete
          /\ cacheFile' = PartialFile
          /\ writer' = [writer EXCEPT !.pc = "failed"]
    /\ UNCHANGED <<reader, callVars, chatVars, recVars>>

\* the cache read of scrape_website_content in the other session
ReaderLoad ==
    /\ reader.pc = "ready"
    /\ reader' = [pc |-> "loaded", seen |-> cacheFile]
    /\ UNCHANGED <<cacheFile, writer, callVars, chatVars, recVars>>

\* a writer about to save a corpus over the file of an earlier crawl, or
\* where there is no file, and a reader about to load
ConcInit ==
    /\ pc = "idle"
    /\ op = "none"
    /\ session_articles = <<>>
    /\ LocalsIdle
    /\ ChatIdle
    /\ RecIdle
    /\ \E c \in RankCorpora \ {<<>>} :
          /\ cacheFile \in {NoFile, Snapshot(Stripped(c))}
          /\ writer = [pc |-> "ready", data |-> c, previous |-> cacheFile]
    /\ reader = [pc |-> "ready", seen |-> NoFile]

ConcNext ==
    \/ WriteOpen
    \/ WriteDump
    \/ ReaderLoad

ConcSpec == ConcInit /\ [][ConcNext]_vars

(***************************************************************************)
(* The chat handler of main, query_website_content and log_qa_pair         *)
(***************************************************************************)
MaxQueries == 3

\* what the handler can log as the answer of a query
NO_CONTENT == "no content"
ANSWER == "answer"
COMPLETION_ERROR == "completion error"
HANDLER_ERROR == "handler error"

\* variant: the CSV file is written whether or not the worksheet took the entry
log_qa_pair_BothSinks(question, answer, next_pc) ==
    /\ qa_logs' = Append(qa_logs, [question |-> question, answer |-> answer])
    /\ csv_log' = Append(csv_log, <<question, answer>>)
    /\ \/ /\ sheet_log' = Append(sheet_log, <<question, answer>>)
          /\ chat' = [pc |-> next_pc, n |-> question, sheets |-> TRUE]
       \/ /\ chat' = [pc |-> next_pc, n |-> question, sheets |-> FALSE]
          /\ UNCHANGED sheet_log

\* log_qa_pair: the entry goes to the session log, then to the worksheet,
\* and to the CSV file only when the worksheet did not take it; a failure
\* of either sink is caught inside
log_qa_pair(question, answer, next_pc) ==
    /\ qa_logs' = Append(qa_logs, [question |-> question, answer |-> answer])
    /\ \/ \* worksheet.append_row succeeded
          /\ sheet_log' = Append(sheet_log, <<question, answer>>)
          /\ chat' = [pc |-> next_pc, n |-> question, sheets |-> TRUE]
          /\ UNCHANGED csv_log
       \/ \* gspread missing, no client, or an exception in the sheets block
          /\ chat' = [pc |-> next_pc, n |-> question, sheets |-> FALSE]
          /\ UNCHANGED sheet_log
          /\ \/ csv_log' = Append(csv_log, <<question, answer>>)
             \/ \* to_csv raises: the error is printed and swallowed
                UNCHANGED csv_log

\* st.chat_input gave a prompt; with an empty corpus the handler answers
\* with the fixed message and logs it itself
ChatInput ==
    /\ chat.pc = "idle"
    /\ chat.n < MaxQueries
    /\ IF session_articles # <<>>
       THEN /\ chat' = [pc |-> "rank", n |-> chat.n + 1, sheets |-> FALSE]
            /\ UNCHANGED <<qa_logs, sheet_log, csv_log>>
       ELSE log_qa_pair(chat.n + 1, NO_CONTENT, "render")
    /\ UNCHANGED <<cacheFile, callVars, fileVars, recVars>>

\* query_website_content up to its try block: find_similar_articles and the
\* building of the context, whose exceptions reach the handler of main
QueryRank ==
    /\ chat.pc = "rank"
    /\ \/ chat' = [chat EXCEPT !.pc = "complete"]
       \/ chat' = [chat EXCEPT !.pc = "except"]
    /\ UNCHANGED <<cacheFile, callVars, fileVars, recVars, qa_logs,
                   sheet_log, csv_log>>

\* the try block of query_website_content: the completion, then the log of
\* the answer, or the log of the error message in the except branch
QueryComplete ==
    /\ chat.pc = "complete"
    /\ \/ log_qa_pair(chat.n, ANSWER, "render")
       \/ log_qa_pair(chat.n, COMPLETION_ERROR, "render")
    /\ UNCHANGED <<cacheFile, callVars, fileVars, recVars>>

\* the handler shows the answer and its sources and stores them in the
\* chat history
ChatRender ==
    /\ chat.pc = "render"
    /\ chat' = [chat EXCEPT !.pc = "idle"]
    /\ UNCHANGED <<cacheFile, callVars, fileVars, recVars, qa_logs,
                   sheet_log, csv_log>>

\* variant: the except branch of the handler shows the error and logs
\* nothing
ChatExcept_NoLog ==
    /\ chat.pc = "except"
    /\ chat' = [chat EXCEPT !.pc = "idle"]
    /\ UNCHANGED <<cacheFile, callVars, fileVars, recVars, qa_logs,
                   sheet_log, csv_log>>

\* the except branch of the handler: the error is shown and logged
ChatExcept ==
    /\ chat.pc = "except"
    /\ log_qa_pair(chat.n, HANDLER_ERROR, "idle")
    /\ UNCHANGED <<cacheFile, callVars, fileVars, recVars>>

\* a session with its corpus loaded, or with none, before the first query
AnswerInit ==
    /\ pc = "idle"
    /\ op = "none"
    /\ session_articles \in {c \in RankCorpora : Len(c) <= 1}
    /\ cacheFile = IF session_articles = <<>> THEN NoFile
                   ELSE Snapshot(Stripped(session_articles))
    /\ LocalsIdle
    /\ FileIdle
    /\ RecIdle
    /\ chat = [pc |-> "idle", n |-> 0, sheets |-> FALSE]
    /\ qa_logs = <<>>
    /\ sheet_log = <<>>
    /\ csv_log = <<>>

AnswerNext ==
    \/ ChatInput
    \/ QueryRank
    \/ QueryComplete
    \/ ChatRender
    \/ ChatExcept

AnswerSpec == AnswerInit /\ [][AnswerNext]_vars

(***************************************************************************)
(* get_articles_by_location and calculate_distance                         *)
(***************************************************************************)
\* the states of STATE_COORDINATES the documents and profiles here use
STATE_COORDINATES == {"NY", "NJ", "CT", "PA", "ME", "CA", "NV", "TX"}

\* a state code without coordinates
NO_STATE == "ZZ"

\* the miles calculate_distance gives between the centers of two states,
\* rounded up to a whole mile
MilesBetween ==
    "NY" :> [NY |-> 0, NJ |-> 131, CT |-> 120, PA |-> 160, ME |-> 301, CA |-> 2406, NV |-> 2215, TX |-> 1464] @@
    "NJ" :> [NY |-> 131, NJ |-> 0, CT |-> 129, PA |-> 143, ME |-> 370, CA |-> 2443, NV |-> 2257, TX |-> 1437] @@
    "CT" :> [NY |-> 120, NJ |-> 129, CT |-> 0, PA |-> 243, ME |-> 242, CA |-> 2522, NV |-> 2332, TX |-> 1554] @@
    "PA" :> [NY |-> 160, NJ |-> 143, CT |-> 243, PA |-> 0, ME |-> 459, CA |-> 2300, NV |-> 2114, TX |-> 1313] @@
    "ME" :> [NY |-> 301, NJ |-> 370, CT |-> 242, PA |-> 459, ME |-> 0, CA |-> 2652, NV |-> 2455, TX |-> 1763] @@
    "CA" :> [NY |-> 2406, NJ |-> 2443, CT |-> 2522, PA |-> 2300, ME |-> 2652, CA |-> 0, NV |-> 210, TX |-> 1318] @@
    "NV" :> [NY |-> 2215, NJ |-> 2257, CT |-> 2332, PA |-> 2114, ME |-> 2455, CA |-> 210, NV |-> 0, TX |-> 1213] @@
    "TX" :> [NY |-> 1464, NJ |-> 1437, CT |-> 1554, PA |-> 1313, ME |-> 1763, CA |-> 1318, NV |-> 1213, TX |-> 0]

calculate_distance(a, b) == MilesBetween[a][b]

\* variant: the slice keeps the whole list
Prefix_All(s, k) == s

\* s[:k]
Prefix(s, k) == SubSeq(s, 1, Min(k, Len(s)))

\* 'states' in article and article.get('states')
HasStates(article) == article.states # <<>>
HasNoStates(article) == ~HasStates(article)

\* variant: every state is taken to be within the distance
WithinDistance_Always(article, user_state, max_distance) == TRUE

\* the inner loop: some state of the article has coordinates and lies
\* within max_distance of the user's state
WithinDistance(article, user_state, max_distance) ==
    \E i \in 1..Len(article.states) :
       /\ article.states[i] \in STATE_COORDINATES
       /\ calculate_distance(user_state, article.states[i]) <= max_distance

\* the orders random.shuffle can leave the positions S of a list in
RECURSIVE Perms(_)
Perms(S) ==
    IF S = {} THEN {<<>>}
    ELSE UNION {{<<x>> \o p : p \in Perms(S \ {x})} : x \in S}

\* variant: fewer than 4 matches are returned without the top-up
get_articles_by_location_NoTopUp(docs, user_state, max_distance, shuffle) ==
    IF user_state \notin STATE_COORDINATES THEN docs
    ELSE LET articles_with_states == SelectSeq(docs, HasStates)
             articles_without_states == SelectSeq(docs, HasNoStates)
             Matches(a) == WithinDistance(a, user_state, max_distance)
             filtered == SelectSeq(articles_with_states, Matches)
             shuffled == [i \in 1..Len(articles_without_states) |->
                             articles_without_states[shuffle[i]]]
         IN  IF Len(filtered) > 0 THEN filtered ELSE Prefix(shuffled, 10)

\* get_articles_by_location; shuffle is the order random.shuffle gave
get_articles_by_location(docs, user_state, max_distance, shuffle) ==
    IF user_state \notin STATE_COORDINATES THEN docs
    ELSE LET articles_with_states == SelectSeq(docs, HasStates)
             articles_without_states == SelectSeq(docs, HasNoStates)
             Matches(a) == WithinDistance(a, user_state, max_distance)
             filtered == SelectSeq(articles_with_states, Matches)
             shuffled == [i \in 1..Len(articles_without_states) |->
                             articles_without_states[shuffle[i]]]
         IN  IF Len(filtered) >= 4 THEN filtered
             ELSE IF Len(filtered) > 0
                  THEN filtered
                       \o Prefix(articles_without_states, 4 - Len(filtered))
                  ELSE Prefix(shuffled, 10)

\* the number of untagged documents of a list
Untagged(docs) == Len(SelectSeq(docs, HasNoStates))

MaxLocDocs == 5

\* the 'states' a document can carry: none, one, several, or a code that
\* has no coordinates
StateTags == {<<>>, <<"CA">>, <<"ME">>, <<"NV">>, <<"ME", "CA">>, <<NO_STATE>>}

\* the i-th document of a list, with its tags
LocDoc(i, tags) == [id |-> i, states |-> tags]

\* the list of n documents that carry the tags t[1], ..., t[n]
LocDocs(n, t) == [i \in 1..n |-> LocDoc(i, t[i])]

\* max_distance: the 500 miles the code passes, and a shorter radius
Radii == {500, 200}

MaxUntagged == 11

\* a list longer than the slice of the no-match branch: m documents tagged
\* [ME], then n documents without states
LongDocs(m, n) ==
    [i \in 1..(m + n) |-> LocDoc(i, IF i <= m THEN <<"ME">> ELSE <<>>)]

\* the orders of random.shuffle that are tried: every order of a list of
\* up to MaxLocDocs elements, the rotations and the reversal of a longer one
ShuffleOrders(n) ==
    IF n <= MaxLocDocs THEN Perms(1..n)
    ELSE {[i \in 1..n |-> ((i + k - 1) % n) + 1] : k \in 0..(n - 1)}
         \cup {[i \in 1..n |-> n + 1 - i]}

\* the regions and radii of a call: CA at both radii, and a region that
\* has no coordinates
LocProfiles ==
    {<<"CA", r>> : r \in Radii} \cup {<<NO_STATE, 500>>}

LocCall ==
    /\ ~loc_out.called
    /\ \E shuffle \in ShuffleOrders(Untagged(loc_in.articles)) :
          loc_out' = [called |-> TRUE,
                      result |-> get_articles_by_location(
                                     loc_in.articles, loc_in.user_state,
                                     loc_in.max_distance, shuffle)]
    /\ UNCHANGED <<cacheFile, callVars, fileVars, chatVars, rec_in, rec_out,
                   sel_in, sel_out, loc_in, pageVars>>

LocInit ==
    /\ pc = "idle"
    /\ op = "none"
    /\ cacheFile = NoFile
    /\ session_articles = <<>>
    /\ LocalsIdle
    /\ FileIdle
    /\ ChatIdle
    /\ PageIdle
    /\ rec_in = NoCall
    /\ rec_out = NoCall
    /\ sel_in = NoCall
    /\ sel_out = NoCall
    /\ \/ \E n \in 0..MaxLocDocs :
             \E t \in [1..n -> StateTags], p \in LocProfiles :
                loc_in = [called |-> TRUE, articles |-> LocDocs(n, t),
                          user_state |-> p[1], max_distance |-> p[2]]
       \/ \E m \in 0..1, n \in (MaxLocDocs + 1)..MaxUntagged :
             loc_in = [called |-> TRUE, articles |-> LongDocs(m, n),
                       user_state |-> "CA", max_distance |-> 500]
    /\ loc_out = NoCall

LocNext == LocCall

LocSpec == LocInit /\ [][LocNext]_vars

(***************************************************************************)
(* recommend_articles                                                      *)
(***************************************************************************)
\* the keyword lists of the two user types
CITY_KEYWORDS == {"microtransit", "paratransit", "city", "municipal", "urban"}
AGENCY_KEYWORDS == {"paratransit", "transit", "agency", "public transportation"}

\* the filter by user type; a.words are the keywords that occur in the
\* content, title or description of the document
IsRelevant(a, user_type) ==
    IF user_type = "city" THEN a.words \cap CITY_KEYWORDS # {}
    ELSE IF user_type = "transit_agency" THEN a.words \cap AGENCY_KEYWORDS # {}
    ELSE TRUE

\* variant: every relevant document counts as a case study
IsCaseStudy_All(a) == TRUE

\* one of the case study markers occurs in the type, title, content or url
IsCaseStudy(a) == a.marker

\* a completion call that raised, or whose reply could not be read
FailedReply == [ok |-> FALSE, numbers |-> <<>>]

\* the numbers re.findall(r'\d+', ...) took out of a reply
Reply(numbers) == [ok |-> TRUE, numbers |-> numbers]

\* 0 <= int(x) - 1 < len(candidates)
ValidNumber(x, n) == 0 <= x - 1 /\ x - 1 < n

\* variant: every number of the reply is used, not the first k
PickByNumbers_NoCut(candidates, reply, k) ==
    IF ~reply.ok THEN Prefix(candidates, k)
    ELSE LET n == Len(candidates)
             Valid(x) == ValidNumber(x, n)
             selected_indices == SelectSeq(reply.numbers, Valid)
         IN  IF selected_indices = <<>> THEN Prefix(candidates, k)
             ELSE [i \in 1..Len(selected_indices) |->
                      candidates[selected_indices[i]]]

\* the selection after a completion call: the first k numbers of the
\* reply, those that index a candidate, else the first k candidates
PickByNumbers(candidates, reply, k) ==
    IF ~reply.ok THEN Prefix(candidates, k)
    ELSE LET n == Len(candidates)
             Valid(x) == ValidNumber(x, n)
             selected_indices == SelectSeq(Prefix(reply.numbers, k), Valid)
         IN  IF selected_indices = <<>> THEN Prefix(candidates, k)
             ELSE [i \in 1..Len(selected_indices) |->
                      candidates[selected_indices[i]]]

\* the candidates the prompt lists: enumerate(general_articles[:30])
Presented(candidates) == Prefix(candidates, 30)

\* "Get 3 general articles"
select_general(general_articles, reply) ==
    IF Len(general_articles) <= 3 THEN general_articles
    ELSE PickByNumbers(general_articles, reply, 3)

\* "Get 4 geographically relevant case studies", for a non-empty list
select_case_studies(location_case_studies, reply) ==
    IF Len(location_case_studies) <= 4 THEN location_case_studies
    ELSE PickByNumbers(location_case_studies, reply, 4)

\* the value recommend_articles returns; none tells None from a list
Recommended(general, case_studies, none) ==
    [general |-> general, case_studies |-> case_studies, none |-> none]

recommend_articles(docs, user_type, user_state, greply, creply, shuffle) ==
    IF docs = <<>> THEN Recommended(<<>>, <<>>, FALSE)
    ELSE LET Relevant(a) == IsRelevant(a, user_type)
             relevant_articles == SelectSeq(docs, Relevant)
             case_studies == SelectSeq(relevant_articles, IsCaseStudy)
             NotCaseStudy(a) ==
                 \A i \in 1..Len(case_studies) : case_studies[i] # a
             general_articles == SelectSeq(relevant_articles, NotCaseStudy)
             selected_general == select_general(general_articles, greply)
             location_case_studies ==
                 get_articles_by_location(case_studies, user_state, 500,
                                          shuffle)
         IN  IF case_studies # <<>> /\ location_case_studies # <<>>
             THEN Recommended(selected_general,
                              select_case_studies(location_case_studies,
                                                  creply),
                              FALSE)
             ELSE Recommended(selected_general, <<>>, TRUE)

\* the case studies recommend_articles hands to get_articles_by_location
CaseStudiesOf(docs, user_type) ==
    LET Relevant(a) == IsRelevant(a, user_type)
    IN  SelectSeq(SelectSeq(docs, Relevant), IsCaseStudy)

MaxGeneral == 4

\* a document of the corpus as recommend_articles reads it
RecDoc(id, words, marker, states) ==
    [id |-> id, words |-> words, marker |-> marker, states |-> states]

\* general documents that both user types find relevant
GeneralIds == <<"g1", "g2", "g3", "g4", "g5", "g6">>
General(i) == RecDoc(GeneralIds[i], {"paratransit", "transit"}, FALSE, <<>>)

\* a general document with none of the keywords
G_OTHER == RecDoc("other", {}, FALSE, <<>>)

\* case studies: five within 500 miles of NY, two far from it, two without
\* states; the TX one is relevant to cities only
CasePool ==
    << RecDoc("ny", {"transit", "city"}, TRUE, <<"NY">>),
       RecDoc("ca", {"transit", "city"}, TRUE, <<"CA">>),
       RecDoc("tx", {"city"}, TRUE, <<"TX">>),
       RecDoc("nj", {"transit", "city"}, TRUE, <<"NJ">>),
       RecDoc("ct", {"transit", "city"}, TRUE, <<"CT">>),
       RecDoc("me-ny", {"transit", "city"}, TRUE, <<"ME", "NY">>),
       RecDoc("pa", {"transit", "city"}, TRUE, <<"PA">>),
       RecDoc("u1", {"transit", "city"}, TRUE, <<>>),
       RecDoc("u2", {"transit", "city"}, TRUE, <<>>) >>

\* the documents of a list at the positions of S, in the order of the list
RECURSIVE SubList(_, _)
SubList(s, S) ==
    IF s = <<>> THEN <<>>
    ELSE LET rest == SubList(SubSeq(s, 1, Len(s) - 1), S)
         IN  IF Len(s) \in S THEN Append(rest, s[Len(s)]) ELSE rest

\* a corpus: some case studies of the pool, then g general documents, then
\* possibly the one without keywords
Corpus(S, g, other) ==
    SubList(CasePool, S)
    \o [i \in 1..g |-> General(i)]
    \o (IF other THEN <<G_OTHER>> ELSE <<>>)

UserTypes == {"city", "transit_agency", "other"}
UserStates == {"NY", "CA", NO_STATE}

\* replies to the two prompts: a failure, no number, numbers out of range,
\* repeated numbers, more numbers than asked for
GeneralReplies ==
    {FailedReply, Reply(<<>>), Reply(<<2, 2, 9>>), Reply(<<4, 1, 3, 2>>)}
CaseReplies ==
    {FailedReply, Reply(<<0>>), Reply(<<5, 5, 1, 2, 3>>)}

RecCall ==
    /\ ~rec_out.called
    /\ \E general_reply \in GeneralReplies, case_reply \in CaseReplies :
          \E shuffle \in Perms(1..Untagged(CaseStudiesOf(rec_in.articles,
                                                         rec_in.user_type))) :
             rec_out' = [called |-> TRUE,
                         value |-> recommend_articles(
                                       rec_in.articles, rec_in.user_type,
                                       rec_in.user_state, general_reply,
                                       case_reply, shuffle)]
    /\ UNCHANGED <<cacheFile, callVars, fileVars, chatVars, rec_in, sel_in,
                   sel_out, loc_in, loc_out, pageVars>>

RecInit ==
    /\ pc = "idle"
    /\ op = "none"
    /\ cacheFile = NoFile
    /\ session_articles = <<>>
    /\ LocalsIdle
    /\ FileIdle
    /\ ChatIdle
    /\ PageIdle
    /\ \E S \in SUBSET (1..Len(CasePool)), g \in 0..MaxGeneral,
          other \in BOOLEAN, t \in UserTypes, u \in UserStates :
          rec_in = [called |-> TRUE, articles |-> Corpus(S, g, other),
                    user_type |-> t, user_state |-> u]
    /\ rec_out = NoCall
    /\ sel_in = NoCall
    /\ sel_out = NoCall
    /\ loc_in = NoCall
    /\ loc_out = NoCall

RecNext == RecCall

RecSpec == RecInit /\ [][RecNext]_vars

(***************************************************************************)
(* The selection of general documents on long candidate lists              *)
(***************************************************************************)
MaxCandidates == 32

\* the i-th general candidate
Candidate(i) == [id |-> i]

\* numbers a reply can hold: below, at and above the ends of the list
\* the prompt shows
SelNumbers == {0, 1, 3, 30, 31, 40}

\* up to four numbers; the code reads the first three
SelReplies ==
    {FailedReply}
    \cup UNION {{Reply(q) : q \in [1..k -> SelNumbers]} : k \in 0..4}

SelectCall ==
    /\ ~sel_out.called
    /\ sel_out' = [called |-> TRUE,
                   result |-> select_general(sel_in.candidates, sel_in.reply)]
    /\ UNCHANGED <<cacheFile, callVars, fileVars, chatVars, rec_in, rec_out,
                   sel_in, loc_in, loc_out, pageVars>>

SelectInit ==
    /\ pc = "idle"
    /\ op = "none"
    /\ cacheFile = NoFile
    /\ session_articles = <<>>
    /\ LocalsIdle
    /\ FileIdle
    /\ ChatIdle
    /\ PageIdle
    /\ rec_in = NoCall
    /\ rec_out = NoCall
    /\ \E n \in 0..MaxCandidates, r \in SelReplies :
          sel_in = [called |-> TRUE,
                    candidates |-> [i \in 1..n |-> Candidate(i)],
                    reply |-> r]
    /\ sel_out = NoCall
    /\ loc_in = NoCall
    /\ loc_out = NoCall

SelectNext == SelectCall

SelectSpec == SelectInit /\ [][SelectNext]_vars

(***************************************************************************)
(* The anchor loop of the discovery phase on pages of any content          *)
(***************************************************************************)
\* one anchor of the page being scanned, with the anchor kept for inspection
LinkScan ==
    /\ pc = "discover"
    /\ links_left > 0
    /\ links_left' = links_left - 1
    /\ \E link \in Anchors :
          /\ ScanAnchor(link)
          /\ scanned' = [called |-> TRUE, link |-> link,
                         ptitle |-> page_title,
                         queued |-> urls_to_visit' # urls_to_visit,
                         stub |-> articles' # articles]
    /\ UNCHANGED <<pc, op, cacheFile, session_articles, visited_count,
                   page_title, idx, result, fetched, write_failed, rankVars,
                   obsVars, fileVars, chatVars, rec_in, rec_out, sel_in,
                   sel_out, loc_in, loc_out, det_in, det_out>>

\* the crawl after the first seed was fetched: its anchors are to be scanned
LinkInit ==
    /\ pc = "discover"
    /\ op = "scrape"
    /\ cacheFile = NoFile
    /\ session_articles = <<>>
    /\ articles = <<>>
    /\ seen_urls = {Head(seed_urls)}
    /\ urls_to_visit = Tail(seed_urls)
    /\ visited_count = 1
    /\ page_title \in PageTitles
    /\ links_left \in 1..MaxLinks
    /\ idx = 0
    /\ query_embedding = NoVec
    /\ top_k = 0
    /\ article_scores = <<>>
    /\ embeddings_generated = 0
    /\ result = <<>>
    /\ fetched = <<Head(seed_urls)>>
    /\ enqueued = {seed_urls[i] : i \in 1..Len(seed_urls)}
    /\ rediscovered = FALSE
    /\ write_failed = FALSE
    /\ query_failed = FALSE
    /\ entry_articles = <<>>
    /\ entry_cache = NoFile
    /\ embed_calls = {}
    /\ cache_read = NothingRead
    /\ requests = 1
    /\ fetch_ok = TRUE
    /\ scrape_error = FALSE
    /\ OthersIdle

LinkNext == LinkScan

LinkSpec == LinkInit /\ [][LinkNext]_vars

(***************************************************************************)
(* The location detection of the extraction phase, on one fetched page     *)
(***************************************************************************)
NoMatch == "<no match>"

\* full_state_names.get(location_text.lower()), for the texts of the model
StateCode(t) ==
    CASE t = "Texas" -> "TX"
      [] t = "California" -> "CA"
      [] OTHER -> NoMatch

\* group 1 of re.search(r',\s*([A-Z][a-z]+(?:\s+[A-Z][a-z]+)*)', text)
AfterComma(t) ==
    CASE t = "Austin, Texas" -> "Texas"
      [] t = "Toronto, Ontario" -> "Ontario"
      [] OTHER -> NoMatch

\* what the patterns find on a page:
\*   label      the state group of the 'Location ... City, State' pattern in
\*              the container of the first 'Location' string, or NoMatch
\*   locdiv     the text of the first location-classed element, or NoElem
\*   pagematch  the state group of the 'Location: City, State' pattern in the
\*              text of the whole page, or NoMatch
\*   content    the codes the word-boundary scan finds in article['content']
LabelTexts == {NoMatch, "Texas", "Ontario"}
LocDivTexts == {NoElem, "", "Our offices", "Texas", "Austin, Texas"}
PageMatches == {NoMatch, "California", "Ontario"}
ContentStates == SUBSET {"CA", "TX"}
FetchedPages ==
    [label : LabelTexts, locdiv : LocDivTexts, pagematch : PageMatches,
     content : ContentStates]

\* not location_text
Falsy(t) == t = NoMatch \/ t = ""

\* location_text after patterns 1, 2 and 3
LocationText(page) ==
    LET t1 == page.label
        t2 == IF page.locdiv # NoElem /\ Falsy(t1)
              THEN IF AfterComma(page.locdiv) # NoMatch
                   THEN AfterComma(page.locdiv)
                   ELSE page.locdiv
              ELSE t1
    IN  IF Falsy(t2) THEN page.pagematch ELSE t2

\* pattern 3 searched the text of the whole page
PageSearched(page) ==
    Falsy(IF page.locdiv # NoElem /\ Falsy(page.label)
          THEN IF AfterComma(page.locdiv) # NoMatch
               THEN AfterComma(page.locdiv)
               ELSE page.locdiv
          ELSE page.label)

\* mentioned_states, and whether the scan of the content ran
detect_states(page) ==
    LET t == LocationText(page)
        structured == IF ~Falsy(t) /\ StateCode(t) # NoMatch
                      THEN {StateCode(t)} ELSE {}
    IN  [states |-> IF structured # {} THEN structured ELSE page.content,
         page_searched |-> PageSearched(page),
         content_scanned |-> structured = {}]

DetectCall ==
    /\ ~det_out.called
    /\ det_out' = [called |-> TRUE, value |-> detect_states(det_in.page)]
    /\ UNCHANGED <<cacheFile, callVars, fileVars, chatVars, rec_in, rec_out,
                   sel_in, sel_out, loc_in, loc_out, scanned, det_in>>

DetectInit ==
    /\ pc = "idle"
    /\ op = "none"
    /\ cacheFile = NoFile
    /\ session_articles = <<>>
    /\ LocalsIdle
    /\ FileIdle
    /\ ChatIdle
    /\ rec_in = NoCall
    /\ rec_out = NoCall
    /\ sel_in = NoCall
    /\ sel_out = NoCall
    /\ loc_in = NoCall
    /\ loc_out = NoCall
    /\ scanned = NoCall
    /\ \E page \in FetchedPages : det_in = [called |-> TRUE, page |-> page]
    /\ det_out = NoCall

DetectNext == DetectCall

DetectSpec == DetectInit /\ [][DetectNext]_vars

(***************************************************************************)
(* One run of scrape_website_content, from the call to the return. The     *)
(* function is sequential code: whenever it has a next step, it takes one. *)
(***************************************************************************)
CrawlNext ==
    \/ ScrapeStart
    \/ DiscoverPop
    \/ DiscoverLink
    \/ DiscoverDone
    \/ ExtractArticle
    \/ SaveCache

CrawlSpec == Init /\ [][CrawlNext]_vars /\ WF_vars(CrawlNext)

(***************************************************************************)
(* Properties                                                              *)
(***************************************************************************)
Range(s) == {s[i] : i \in 1..Len(s)}

\* the document carries a non-empty embedding
HasEmbedding(a) == a.embedding # NoVec

NoDuplicateUrl(as) ==
    \A i, j \in 1..Len(as) : i # j => as[i].url # as[j].url

\* the score find_similar_articles ranks a document by
Score(a) ==
    IF HasEmbedding(a) THEN cosine_similarity(query_embedding, a.embedding)
    ELSE FailScore

RankReturned == pc = "done" /\ op = "rank"
ScrapeReturned == pc = "done" /\ op = "scrape"

\* a document without embedding on entry of the call carries one on exit
NewEmbeddingStored ==
    \E i \in 1..Len(articles) :
       ~HasEmbedding(entry_articles[i]) /\ HasEmbedding(articles[i])

\* C1: when a rank call computed a new embedding and the file write did not
\* fail, the snapshot file holds the full corpus with the new embeddings
\* when the call returns.
C1_NewEmbeddingsPersisted ==
    (RankReturned /\ NewEmbeddingStored /\ ~write_failed)
        => cacheFile = Snapshot(articles)

\* C2: breadth-first over the whole frontier: every URL that was placed on
\* the frontier, seed or discovered link, is still queued or, once popped
\* (which happens only while budget is left), has been fetched.
C2_FrontierAllFetched ==
    enqueued \subseteq (Range(urls_to_visit) \cup Range(fetched))

\* C3: no two Documents of the corpus of a crawl have the same url, in the
\* list being built, in the returned list, in the session and in the file.
C3_UrlUnique ==
    /\ NoDuplicateUrl(articles)
    /\ NoDuplicateUrl(result)
    /\ NoDuplicateUrl(session_articles)
    /\ NoDuplicateUrl(cacheFile.data)

\* a crawl returned at least two documents although some page linked to an
\* already discovered URL
C3_Witness ==
    ScrapeReturned /\ rediscovered /\ ~write_failed /\ Len(result) >= 2

\* C4: the number of pages fetched in phase 1 never exceeds max_pages, and
\* once the visit counter has reached the budget no further URL is fetched.
C4_FetchBudget ==
    /\ [](Len(fetched) <= max_pages)
    /\ [][(pc = "discover" /\ visited_count >= max_pages)
             => fetched' = fetched]_vars

\* phase 1 stopped on the budget with an unvisited URL still queued
C4_Witness ==
    /\ pc = "extract"
    /\ visited_count = max_pages
    /\ Len(fetched) = max_pages
    /\ \E i \in 1..Len(urls_to_visit) : urls_to_visit[i] \notin seen_urls

\* C5: the corpus of a crawl never holds more than max_pages Documents.
C5_CorpusWithinBudget == Len(articles) <= max_pages

\* C6: a document that carries an embedding is never sent to the embedding
\* capability again and its embedding is never changed, in any step of any
\* sequence of rank calls.
C6_CacheReuse ==
    [][\A i \in 1..Len(session_articles) :
          HasEmbedding(session_articles[i])
             => /\ session_articles'[i].embedding
                     = session_articles[i].embedding
                /\ (i \in embed_calls' => i \in embed_calls)]_vars

\* a rank call embedded some document and left alone one that had a vector
C6_Witness ==
    /\ RankReturned
    /\ embed_calls # {}
    /\ \E i \in 1..Len(entry_articles) :
          HasEmbedding(entry_articles[i]) /\ i \notin embed_calls

\* C7: the rank call returns at most top_k documents, all of the corpus,
\* ordered by non-increasing similarity score.
C7_TopKSorted ==
    RankReturned
        => /\ Len(result) <= top_k
           /\ Range(result) \subseteq Range(articles)
           /\ ~query_failed
                 => \A i, j \in 1..Len(result) :
                       i < j => Score(result[i]) >= Score(result[j])

\* a corpus that was not in score order was cut to top_k sorted documents
C7_Witness ==
    /\ RankReturned /\ ~query_failed
    /\ top_k >= 2 /\ Len(articles) > top_k /\ Len(result) = top_k
    /\ Score(result[1]) > Score(result[2])
    /\ Score(articles[1]) < Score(articles[2])

C9_FailedRankedLast ==
    (RankReturned /\ ~query_failed)
        => /\ Len(article_scores) = Len(articles)
           /\ \A i, j \in 1..Len(article_scores) :
                 (/\ ~HasEmbedding(article_scores[i].article)
                  /\ HasEmbedding(article_scores[j].article)) => j < i

\* C10: a failure of the snapshot write is swallowed and the operation
\* returns the in-memory result it would have returned had the write
\* succeeded.
C10_WriteFailureSwallowed ==
    /\ (ScrapeReturned /\ write_failed) => result = articles
    /\ (RankReturned /\ write_failed /\ ~query_failed)
          => result = [i \in 1..Min(top_k, Len(article_scores)) |->
                          article_scores[i].article]


\* C11: a reader that loads while another session saves observes the
\* complete previous snapshot or the complete new one, never an empty or
\* partly written file.
C11_SaveAtomic ==
    reader.pc = "loaded"
        => reader.seen \in {writer.previous, Snapshot(writer.data)}

\* the call found a snapshot file that parses and holds documents
UsableSnapshotOnEntry ==
    entry_cache.exists /\ entry_cache.valid /\ entry_cache.data # <<>>

\* the call went past the cache read and crawled
Crawled == cache_read.data = <<>>

C13_CachedReturn ==
    (op = "scrape" /\ UsableSnapshotOnEntry)
        => /\ pc = "done"
           /\ result = entry_cache.data
           /\ requests = 0
           /\ cacheFile = entry_cache

\* a snapshot was returned in which one document has a vector and another
\* has none
C13_Witness ==
    /\ ScrapeReturned /\ UsableSnapshotOnEntry
    /\ \E i, j \in 1..Len(result) :
          HasEmbedding(result[i]) /\ ~HasEmbedding(result[j])

\* the handler is working on a query it has not logged yet
ChatPending == chat.pc \in {"rank", "complete", "except"}

C14_WitnessEmpty ==
    /\ chat.pc = "idle"
    /\ \E i \in 1..Len(qa_logs) : qa_logs[i].answer = NO_CONTENT

\* C15: the crawl ends in failure when, and only when, every seed request
\* failed.
C15_FailsIffNoSeedFetched ==
    (ScrapeReturned /\ Crawled) => (scrape_error <=> ~fetch_ok)

C17_EmptyCorpusNone ==
    (rec_out.called /\ rec_in.articles = <<>>)
        => rec_out.value.general = <<>> /\ rec_out.value.none

\* the numbers of the reply that name a candidate the prompt listed, among
\* the three the selection reads
ListedNumbers ==
    LET shown == Len(Presented(sel_in.candidates))
        first == SubSeq(sel_in.reply.numbers, 1,
                        Min(3, Len(sel_in.reply.numbers)))
    IN  {first[i] : i \in 1..Len(first)} \cap 1..shown

\* C18: with more than 3 general candidates every selected document is one
\* of the first 30, the ones the prompt lists, picked by its number in that
\* list; when the reply has no such number or the call fails, the result
\* is the first 3 candidates.
C18_SelectedWerePresented ==
    (sel_out.called /\ Len(sel_in.candidates) > 3)
        => /\ Range(sel_out.result) \subseteq Range(Presented(sel_in.candidates))
           /\ IF sel_in.reply.ok /\ ListedNumbers # {}
              THEN Range(sel_out.result)
                      = {sel_in.candidates[k] : k \in ListedNumbers}
              ELSE sel_out.result = SubSeq(sel_in.candidates, 1, 3)

\* the case studies and the general documents of the corpus of a call
RecCaseStudies == {a \in Range(rec_in.articles) : a.marker}
RecGeneral == {a \in Range(rec_in.articles) : ~a.marker}

\* the scenario of C19: five documents that all pass the filter, three case
\* studies tagged NY, CA and TX, two general documents without states, and
\* the region NY
C19_Scenario ==
    /\ rec_out.called
    /\ rec_in.user_state = "NY"
    /\ Len(rec_in.articles) = 5
    /\ \A a \in Range(rec_in.articles) : IsRelevant(a, rec_in.user_type)
    /\ {a.states : a \in RecCaseStudies} = {<<"NY">>, <<"CA">>, <<"TX">>}
    /\ Cardinality(RecCaseStudies) = 3
    /\ \A a \in RecGeneral : a.states = <<>>

\* C19 as stated: in the scenario the case-study result holds the NY
\* document and is padded with the untagged general documents.
C19_PaddedWithGeneral ==
    C19_Scenario
        => /\ \E a \in Range(rec_out.value.case_studies) : a.states = <<"NY">>
           /\ RecGeneral \subseteq Range(rec_out.value.case_studies)

\* C19 amended: in the scenario the case-study result is the NY document
\* alone, and the two general documents are returned as 'general'; in
\* every call the case-study result holds case studies only.
C19_CaseStudiesOnly ==
    /\ rec_out.called
          => Range(rec_out.value.case_studies) \subseteq RecCaseStudies
    /\ C19_Scenario
          => /\ ~rec_out.value.none
             /\ Len(rec_out.value.case_studies) = 1
             /\ rec_out.value.case_studies[1].states = <<"NY">>
             /\ Range(rec_out.value.general) = RecGeneral
             /\ Len(rec_out.value.general) = 2

\* the scenario was run for a city and gave one case study
C19_Witness ==
    /\ C19_Scenario
    /\ rec_in.user_type = "city"
    /\ Len(rec_out.value.case_studies) = 1

\* the documents of a list that carry states
Tagged(docs) == {a \in Range(docs) : a.states # <<>>}

\* some state of the document is at most max_distance miles from the region
InRange(a, region, max_distance) ==
    \E s \in Range(a.states) \cap STATE_COORDINATES :
       MilesBetween[region][s] <= max_distance

\* C20: for a region with coordinates, a state-tagged document is returned
\* if and only if one of its states lies within max_distance miles of the
\* region; with CA and 500 miles a document tagged [CA] is returned and a
\* document tagged only [ME] is not.
C20_TaggedReturnedIffInRange ==
    (loc_out.called /\ loc_in.user_state \in STATE_COORDINATES)
        => /\ \A a \in Tagged(loc_in.articles) :
                 a \in Range(loc_out.result)
                    <=> InRange(a, loc_in.user_state, loc_in.max_distance)
           /\ (loc_in.user_state = "CA" /\ loc_in.max_distance = 500)
                 => \A a \in Range(loc_in.articles) :
                       /\ a.states = <<"CA">> => a \in Range(loc_out.result)
                       /\ a.states = <<"ME">> => a \notin Range(loc_out.result)

\* CA and 500 miles: a [CA] document was returned and topped up with an
\* untagged one while a [ME] document of the input was left out
C20_Witness ==
    /\ loc_out.called
    /\ loc_in.user_state = "CA" /\ loc_in.max_distance = 500
    /\ \E a, b, c \in Range(loc_in.articles) :
          /\ a.states = <<"CA">> /\ a \in Range(loc_out.result)
          /\ b.states = <<"ME">>
          /\ c.states = <<>> /\ c \in Range(loc_out.result)

\* the tagged documents of the input that are in range, and the untagged
\* ones, in input order
LocMatches ==
    LET Near(a) == a.states # <<>>
                   /\ InRange(a, loc_in.user_state, loc_in.max_distance)
    IN  SelectSeq(loc_in.articles, Near)
LocUntagged ==
    LET Bare(a) == a.states = <<>>
    IN  SelectSeq(loc_in.articles, Bare)

\* the call was made for a region that has coordinates
LocReturned == loc_out.called /\ loc_in.user_state \in STATE_COORDINATES

C22_TopUp ==
    (LocReturned /\ LocMatches # <<>>)
        => IF Len(LocMatches) >= 4
           THEN loc_out.result = LocMatches
           ELSE /\ loc_out.result
                      = LocMatches
                        \o SubSeq(LocUntagged, 1,
                                  Min(4 - Len(LocMatches), Len(LocUntagged)))
                /\ Len(loc_out.result)
                      = Min(4, Len(LocMatches) + Len(LocUntagged))

\* two matches were topped up with the first two of three untagged
\* documents
C22_Witness ==
    /\ LocReturned
    /\ Len(LocMatches) = 2 /\ Len(LocUntagged) = 3
    /\ Len(loc_out.result) = 4

\* four matches were returned and an untagged document was left out
C22_WitnessEnough ==
    /\ LocReturned
    /\ Len(LocMatches) = 4 /\ Len(LocUntagged) = 1
    /\ Len(loc_out.result) = 4

\* urlparse(u).path for the URLs of the model
UrlPath(u) ==
    CASE u = U_ROOT -> "/"
      [] u = U_BLOG -> "/blog/"
      [] u = U_ABOUT -> "/about/"
      [] u = U_ABOUT_Q -> "/about/"
      [] u = U_POST -> "/blog/my-post"
      [] u = U_SOLUTIONS -> "/solutions/"
      [] u = U_PRICING -> "/pricing/"
      [] u = U_CASE -> "/case-studies/metro"
      [] u = U_RES -> "/resources/guide"
      [] u = U_RES_CASE -> "/resources/case-studies/metro"
      [] u = U_FOREIGN -> "/blog/"
      [] u = U_EXTERNAL -> "/blog/news"

\* the type each marker of the type chain stands for
TypeOfMarker(m) ==
    CASE m = "/blog/" -> "blog"
      [] m = "/resources/" -> "resource"
      [] m = "/case-studies/" -> "case-study"
      [] m = "/solutions/" -> "solution"
      [] m = "/audience/" -> "audience"

\* the markers of the type chain that occur in the path of u
TypeMarkersInPath(u) ==
    CASE UrlPath(u) = "/blog/" -> {"/blog/"}
      [] UrlPath(u) = "/blog/my-post" -> {"/blog/"}
      [] UrlPath(u) = "/blog/news" -> {"/blog/"}
      [] UrlPath(u) = "/solutions/" -> {"/solutions/"}
      [] UrlPath(u) = "/case-studies/metro" -> {"/case-studies/"}
      [] UrlPath(u) = "/resources/guide" -> {"/resources/"}
      [] UrlPath(u) = "/resources/case-studies/metro"
            -> {"/resources/", "/case-studies/"}
      [] OTHER -> {}

\* C23: the type of every stub follows from the path of its URL alone: a
\* path with /case-studies/ gives case-study, one with /blog/ gives blog
\* (likewise resource, solution, audience), a path with none of the markers
\* gives page, and stubs whose URLs have the same path have the same type.
C23_TypeFromPath ==
    \A i \in 1..Len(articles) :
       LET a == articles[i] IN
       /\ TypeMarkersInPath(a.url) = {} => a.type = "page"
       /\ \A m \in TypeMarkersInPath(a.url) : a.type = TypeOfMarker(m)
       /\ \A j \in 1..Len(articles) :
             UrlPath(articles[j].url) = UrlPath(a.url)
                => articles[j].type = a.type

\* the stubs of URLs whose path holds exactly one marker are typed by it
C23_OneMarker ==
    \A i \in 1..Len(articles) :
       LET a == articles[i] IN
       (a.url \notin {U_RES_CASE, U_ABOUT_Q})
          => /\ TypeMarkersInPath(a.url) = {} => a.type = "page"
             /\ \A m \in TypeMarkersInPath(a.url) : a.type = TypeOfMarker(m)

\* a path with two markers is typed by the chain's first test, and a marker
\* in the query string is taken for one of the path
C23_Resource == \E i \in 1..Len(articles) :
                   articles[i].url = U_RES_CASE /\ articles[i].type = "resource"
C23_Query == \E i, j \in 1..Len(articles) :
                /\ articles[i].url = U_ABOUT /\ articles[i].type = "page"
                /\ articles[j].url = U_ABOUT_Q /\ articles[j].type = "blog"

\* C24: once a document exists, no step changes its url or its type: the
\* extraction phase, the embedding and the rank call fill other fields only.
\* Every document that is in a list before and after a step keeps both.
C24_UrlAndTypeFrozen ==
    [][/\ \A i \in 1..Len(articles) :
             i <= Len(articles')
                => /\ articles'[i].url = articles[i].url
                   /\ articles'[i].type = articles[i].type
       /\ \A i \in 1..Len(session_articles) :
             i <= Len(session_articles')
                => /\ session_articles'[i].url = session_articles[i].url
                   /\ session_articles'[i].type = session_articles[i].type]_vars

\* the extraction phase filled the content of a blog stub
C24_Witness ==
    /\ pc = "extract"
    /\ idx > 1
    /\ articles[1].content # ""
    /\ articles[1].type = "blog"

\* the length of the candidate title of the anchor scanned last
ScannedTitleLen ==
    TitleLen(LinkTitle(scanned.link, scanned.ptitle,
                       scanned.link.href.target))

\* C25: an anchor that was discovered (its URL joined the frontier) becomes
\* a stub exactly when its candidate title, after the fallback chain, has a
\* length of at least 5 and at most 300.
C25_StubIffTitleLength ==
    (scanned.called /\ scanned.queued)
        => (scanned.stub <=> (ScannedTitleLen >= 5 /\ ScannedTitleLen <= 300))

\* what the code accepts: lengths strictly between 5 and 300
C25_StrictBounds ==
    (scanned.called /\ scanned.queued)
        => (scanned.stub <=> (ScannedTitleLen > 5 /\ ScannedTitleLen < 300))

\* a discovered anchor with a text of 5 characters that left no stub
C25_FiveDropped ==
    /\ scanned.called /\ scanned.queued /\ ~scanned.stub
    /\ scanned.link.text = "Intro"

\* urlparse(u).netloc for the URLs of the model
Authority(u) ==
    CASE u = U_FOREIGN -> "via.example.net"
      [] u = U_EXTERNAL -> "example.org"
      [] OTHER -> "ridewithvia.com"

\* C27: every URL of the frontier and every document's url has the host of
\* the origin, ridewithvia.com: an anchor that resolves to another host is
\* dropped, also when the origin's name and an allow-listed path occur in it.
C27_SameOrigin ==
    /\ \A i \in 1..Len(urls_to_visit) :
          Authority(urls_to_visit[i]) = "ridewithvia.com"
    /\ \A i \in 1..Len(articles) :
          Authority(articles[i].url) = "ridewithvia.com"

\* an anchor to another host that names the origin in its query string was
\* put on the frontier and made a stub
C27_ForeignStub ==
    /\ scanned.called /\ scanned.queued /\ scanned.stub
    /\ scanned.link.href.target = U_FOREIGN

\* an absolute anchor that does not hold the origin's name is dropped
C27_ExternalDropped ==
    (scanned.called /\ scanned.link.href.target = U_EXTERNAL)
        => ~scanned.queued /\ ~scanned.stub

\* the text the ordered steps of the claim select on a page: step 1 is the
\* label pattern, step 2 the location-classed element with a trailing
\* ', State', step 3 the pattern on the whole page; the first match wins
FirstMatch(page) ==
    IF page.label # NoMatch THEN page.label
    ELSE IF page.locdiv # NoElem /\ AfterComma(page.locdiv) # NoMatch
    THEN AfterComma(page.locdiv)
    ELSE page.pagematch

DetectReturned == det_out.called

\* C26: the steps are tried in the order 1, 2, 3, each applied whenever all
\* earlier steps produced no match; when the step that matched yields a
\* state, states is exactly that code and the scan of the content does not
\* run; the scan of the content runs only when steps 1 to 3 yield no state.
C26_FirstMatchWins ==
    DetectReturned =>
       LET page == det_in.page
           code == IF FirstMatch(page) = NoMatch THEN NoMatch
                   ELSE StateCode(FirstMatch(page))
       IN  /\ det_out.value.page_searched
              <=> /\ page.label = NoMatch
                  /\ page.locdiv = NoElem \/ AfterComma(page.locdiv) = NoMatch
           /\ code # NoMatch
                 => /\ det_out.value.states = {code}
                    /\ ~det_out.value.content_scanned
           /\ det_out.value.content_scanned <=> code = NoMatch
           /\ code = NoMatch => det_out.value.states = page.content

\* a location-classed element without ', State' kept pattern 3 from the
\* page's 'Location: City, California', and the content scan ran instead
C26_PatternSkipped ==
    /\ DetectReturned
    /\ det_in.page.label = NoMatch
    /\ det_in.page.locdiv = "Our offices"
    /\ det_in.page.pagematch = "California"
    /\ det_in.page.content = {"TX"}
    /\ ~det_out.value.page_searched
    /\ det_out.value.states = {"TX"}

\* on pages without a location-classed element, and on pages whose element
\* ends in ', State', the order of the claim is the order of the code
C26_WithoutBareElement ==
    (DetectReturned /\ det_in.page.locdiv \in {NoElem, "Austin, Texas"})
        => LET page == det_in.page
               code == IF FirstMatch(page) = NoMatch THEN NoMatch
                       ELSE StateCode(FirstMatch(page))
           IN  /\ det_out.value.page_searched
                  <=> page.label = NoMatch /\ page.locdiv = NoElem
               /\ code # NoMatch => det_out.value.states = {code}
               /\ det_out.value.content_scanned <=> code = NoMatch
               /\ code = NoMatch => det_out.value.states = page.content

\* C28: a call of log_qa_pair adds exactly one entry to the session log,
\* whatever the sinks do; the pair is written to the worksheet or, only when
\* the worksheet write did not succeed, to the CSV file, never to both; the
\* call returns True exactly when the worksheet took the pair; when both
\* sinks fail the call still returns. No other step touches the three logs.
C28_OneSinkPerCall ==
    [][LET dq == Len(qa_logs') - Len(qa_logs)
           ds == Len(sheet_log') - Len(sheet_log)
           dc == Len(csv_log') - Len(csv_log)
       IN  /\ dq \in {0, 1} /\ ds \in {0, 1} /\ dc \in {0, 1}
           /\ dq = 0 => (ds = 0 /\ dc = 0)
           /\ dq = 1
                => /\ SubSeq(qa_logs', 1, Len(qa_logs)) = qa_logs
                   /\ ds + dc <= 1
                   /\ chat'.sheets <=> ds = 1
                   /\ ds = 1 => sheet_log'[Len(sheet_log')]
                                  = <<qa_logs'[Len(qa_logs')].question,
                                      qa_logs'[Len(qa_logs')].answer>>
                   /\ dc = 1 => csv_log'[Len(csv_log')]
                                  = <<qa_logs'[Len(qa_logs')].question,
                                      qa_logs'[Len(qa_logs')].answer>>
                   /\ chat'.pc # "except"]_vars

\* three calls returned: one pair went to the worksheet, one to the CSV
\* file, and one to neither because both sinks failed
C28_Witness ==
    /\ Len(qa_logs) = 3
    /\ Len(sheet_log) = 1
    /\ Len(csv_log) = 1

\* no element of the list occurs at two positions
Distinct(s) == \A i, j \in 1..Len(s) : s[i] = s[j] => i = j

\* C30: whatever the completion replies, the documents recommend_articles
\* returns are pairwise distinct: none occurs twice in general, none occurs
\* twice in case_studies, and none occurs in both lists.
C30_NoDocumentTwice ==
    rec_out.called
        => /\ Distinct(rec_out.value.general)
           /\ Distinct(rec_out.value.case_studies)
           /\ Range(rec_out.value.general)
                 \cap Range(rec_out.value.case_studies) = {}

\* a reply that names one number twice put one document twice in general
C30_Repeated ==
    /\ rec_out.called
    /\ Len(rec_out.value.general) = 2
    /\ rec_out.value.general[1] = rec_out.value.general[2]

\* the two lists never share a document
C30_ListsDisjoint ==
    rec_out.called
        => Range(rec_out.value.general)
              \cap Range(rec_out.value.case_studies) = {}

\* C29: a crawl terminates, whatever the links (cycles and self-links
\* included) and whichever fetches fail: the discovery loop ends with the
\* frontier empty or the budget used, the extraction loop then takes every
\* stub once, in order, and the function returns.
C29_CrawlTerminates ==
    /\ (pc = "discover") ~> (pc = "extract" /\ ~DiscoverGuard)
    /\ (pc = "extract") ~> (pc = "done" /\ idx = Len(articles) + 1)
    /\ [][(pc = "extract" /\ idx' # idx)
             => /\ idx' = idx + 1
                /\ idx <= Len(articles)
                /\ Len(articles') = Len(articles)]_vars

\* a crawl returned after it met a link to a URL it had seen before, with
\* the budget used, URLs left on the frontier, and two stubs taken by the
\* extraction loop, one request each
C29_Witness ==
    /\ pc = "done"
    /\ op = "scrape"
    /\ rediscovered
    /\ visited_count = max_pages
    /\ urls_to_visit # <<>>
    /\ Len(articles) = 2
    /\ idx = 3
    /\ requests = Len(fetched) + 2
====
